---------------------------- MODULE Spec2Model ----------------------------
(***************************************************************************)
(* A model of book/generate-dita.py: the outline indexer (collect_files),  *)
(* the per-document translator (md_to_dita_topic and its helpers), the map *)
(* builder (build_map_structure), the image classifier (is_inline_image)   *)
(* and the heading normaliser (convert_headings_to_lists).                 *)
(*                                                                         *)
(* Text is modelled as a sequence of one-character strings, so that the    *)
(* prefix, suffix, split and strip operations of the code are computed and *)
(* not assumed.                                                            *)
(***************************************************************************)
EXTENDS Integers, Sequences, FiniteSets, TLC

(***************************************************************************)
(* Text primitives (Python str methods used by the code).                  *)
(***************************************************************************)
SetMin(S) == CHOOSE x \in S : \A y \in S : x <= y

\* Body applied to the value of v, v being evaluated once
With(v, Body(_)) == CHOOSE r \in {Body(x) : x \in {v}} : TRUE

StartsWith(s, p) == Len(s) >= Len(p) /\ SubSeq(s, 1, Len(p)) = p

EndsWith(s, p) == Len(s) >= Len(p) /\ SubSeq(s, Len(s) - Len(p) + 1, Len(s)) = p

\* s.lstrip(cs): drop every leading character that is in the set cs
LStrip(s, cs) ==
  With(s, LAMBDA v :
    With({i \in 1..Len(v) : v[i] \notin cs}, LAMBDA keep :
      IF keep = {} THEN <<>> ELSE SubSeq(v, SetMin(keep), Len(v))))

\* index of the first occurrence of the text p in s, 0 when absent
Find(s, p) ==
  With(s, LAMBDA v :
    With({i \in 1..(Len(v) - Len(p) + 1) : SubSeq(v, i, i + Len(p) - 1) = p},
         LAMBDA hits : IF hits = {} THEN 0 ELSE SetMin(hits)))

Contains(s, p) == Find(s, p) # 0

\* s.split(c)[0]
BeforeChar(s, c) ==
  With(s, LAMBDA v :
    With(Find(v, <<c>>), LAMBDA k : IF k = 0 THEN v ELSE SubSeq(v, 1, k - 1)))

\* s.split(c): the list of the pieces between the occurrences of c
RECURSIVE SplitOn(_, _)
SplitOn(s, c) ==
  With(s, LAMBDA v :
    With(Find(v, <<c>>), LAMBDA k :
      IF k = 0 THEN <<v>>
      ELSE <<SubSeq(v, 1, k - 1)>> \o SplitOn(SubSeq(v, k + 1, Len(v)), c)))

\* c.join(parts)
RECURSIVE JoinWith(_, _)
JoinWith(parts, c) ==
  With(parts, LAMBDA v :
    IF v = <<>> THEN <<>>
    ELSE IF Len(v) = 1 THEN v[1]
    ELSE v[1] \o <<c>> \o JoinWith(Tail(v), c))

Whitespace == {" ", "\n", "\t"}

\* s.strip() is non-empty
HasNonWhitespace(s) == With(s, LAMBDA v : \E i \in 1..Len(v) : v[i] \notin Whitespace)

(***************************************************************************)
(* Literals of the code.                                                   *)
(***************************************************************************)
MD_DIR == <<"m", "d">>

DotHtml == <<".", "h", "t", "m", "l">>

DotMd == <<".", "m", "d">>

DotSlash == <<".", "/">>

Http == <<"h", "t", "t", "p", ":", "/", "/">>

Https == <<"h", "t", "t", "p", "s", ":", "/", "/">>

AdobeCom == <<"a", "d", "o", "b", "e", ".", "c", "o", "m">>

HelpxAdobeCom == <<"h", "e", "l", "p", "x", ".">> \o AdobeCom

IsHttpUrl(href) == StartsWith(href, Http) \/ StartsWith(href, Https)

(***************************************************************************)
(* os.path.join and os.path.normpath (POSIX), as called by the code.       *)
(***************************************************************************)
PathJoin(a, b) ==
  IF StartsWith(b, <<"/">>) THEN b
  ELSE IF a = <<>> \/ EndsWith(a, <<"/">>) THEN a \o b
  ELSE a \o <<"/">> \o b

\* the loop of normpath over the components, new_comps being the stack
RECURSIVE NormComps(_, _, _)
NormComps(comps, new_comps, rooted) ==
  With(<<comps, new_comps>>, LAMBDA v :
    IF v[1] = <<>> THEN v[2]
    ELSE LET comp == Head(v[1])
             n == Len(v[2])
         IN  IF comp = <<>> \/ comp = <<".">>
               THEN NormComps(Tail(v[1]), v[2], rooted)
             ELSE IF comp # <<".", ".">>
                     \/ (~rooted /\ n = 0)
                     \/ (n > 0 /\ v[2][n] = <<".", ".">>)
               THEN NormComps(Tail(v[1]), Append(v[2], comp), rooted)
             ELSE IF n > 0
               THEN NormComps(Tail(v[1]), SubSeq(v[2], 1, n - 1), rooted)
             ELSE NormComps(Tail(v[1]), v[2], rooted))

NormPath(path) ==
  With(path, LAMBDA v :
    IF v = <<>> THEN <<".">>
    ELSE LET rooted == StartsWith(v, <<"/">>)
             two == StartsWith(v, <<"/", "/">>) /\ ~StartsWith(v, <<"/", "/", "/">>)
         IN  With(JoinWith(NormComps(SplitOn(v, "/"), <<>>, rooted), "/"), LAMBDA body :
               With(IF two THEN <<"/", "/">> \o body
                    ELSE IF rooted THEN <<"/">> \o body
                    ELSE body,
                    LAMBDA full : IF full = <<>> THEN <<".">> ELSE full)))

(***************************************************************************)
(* normalize_path                                                          *)
(***************************************************************************)
normalize_path(path) ==
  With(LStrip(LStrip(path, {".", "/"}), {"/"}), LAMBDA p1 :
    NormPath(IF EndsWith(p1, DotHtml)
               THEN SubSeq(p1, 1, Len(p1) - 5) \o DotMd
               ELSE p1))

(***************************************************************************)
(* urlparse of an http(s) URL: the network location and the path.          *)
(***************************************************************************)
UrlRest(href) ==
  IF StartsWith(href, Https) THEN SubSeq(href, Len(Https) + 1, Len(href))
  ELSE SubSeq(href, Len(Http) + 1, Len(href))

UrlNetloc(href) ==
  BeforeChar(BeforeChar(BeforeChar(UrlRest(href), "/"), "?"), "#")

UrlPath(href) ==
  With(UrlRest(href), LAMBDA rest :
    BeforeChar(BeforeChar(SubSeq(rest, Len(UrlNetloc(href)) + 1, Len(rest)), "?"), "#"))

(***************************************************************************)
(* The outline: the first list of the parsed toc.md, a sequence of list    *)
(* items.  A list item (li) holds its own content and its nested list:     *)
(*   href, title  its own anchor (href = NoHref when it has none)          *)
(*   wrap         the anchor sits in a <p> (a loose list item) and is not  *)
(*                a direct child of the li                                 *)
(*   text         the first text node that is a direct child of the li     *)
(*                (NoText when there is none)                              *)
(*   kids         the items of its nested list (<<>> when it has none)     *)
(***************************************************************************)
NoHref == <<"<", "n", "o", "n", "e", ">">>

NoText == <<"<", "n", "o", "n", "e", ">">>

MaxNodes == 2

MaxRuns == 2

Li(href, title, wrap, text, kids) ==
  [href |-> href, title |-> title, wrap |-> wrap, text |-> text, kids |-> kids]

H_intro == <<"g", "/", "i", ".", "h", "t", "m", "l">>

H_layers == <<"g", "/", "l", ".", "h", "t", "m", "l">>

H_introRooted == <<"/">> \o H_intro

H_introBare == <<"g", "/", "i">>

H_introSite == Https \o HelpxAdobeCom \o <<"/">> \o H_intro

H_other == Http \o <<"x", ".", "o", "r", "g", "/", "p">>

\* the own content of the list items the outlines are built from
Heads ==
  { Li(H_intro, <<"I", "n", "t", "r", "o">>, FALSE, NoText, <<>>),
    Li(H_layers, <<"L", "a", "y", "e", "r", "s">>, FALSE, NoText, <<>>),
    Li(H_introBare, <<"B", "a", "r", "e">>, FALSE, NoText, <<>>),
    Li(H_introSite, <<"S", "i", "t", "e">>, FALSE, NoText, <<>>),
    Li(H_other, <<"E", "x", "t">>, TRUE, <<"\n">>, <<>>),
    Li(H_intro, <<"L", "o", "o", "s", "e">>, TRUE, <<"\n">>, <<>>),
    Li(NoHref, <<>>, FALSE, <<"P", "a", "r", "t">>, <<>>),
    Li(NoHref, <<>>, FALSE, NoText, <<>>),
    Li(NoHref, <<>>, FALSE, <<"\n">>, <<>>) }

\* the lists of exactly n list items in all, nested in every way
RECURSIVE ListsOfSize(_)
ListsOfSize(n) ==
  IF n = 0 THEN {<<>>}
  ELSE UNION { { <<[h EXCEPT !.kids = k]>> \o rest :
                   h \in Heads, k \in ListsOfSize(j - 1), rest \in ListsOfSize(n - j) } :
               j \in 1..n }

Outlines == UNION { ListsOfSize(n) : n \in 1..MaxNodes }

(***************************************************************************)
(* li.find("a", href=True): the first anchor of the list item in document  *)
(* order, searched through all its descendants.                            *)
(***************************************************************************)
RECURSIVE FirstAnchorIn(_)
FirstAnchorIn(ol) ==
  With(ol, LAMBDA v :
    IF v = <<>> THEN [href |-> NoHref, title |-> <<>>]
    ELSE LET li == Head(v)
         IN  IF li.href # NoHref THEN [href |-> li.href, title |-> li.title]
             ELSE With(FirstAnchorIn(li.kids), LAMBDA below :
                    IF below.href # NoHref THEN below ELSE FirstAnchorIn(Tail(v))))

FindAnchorDeep(li) == FirstAnchorIn(<<li>>)

\* li.find("a", href=True, recursive=False): only an anchor that is a direct child
FindAnchorDirect(li) ==
  IF li.href # NoHref /\ ~li.wrap THEN [href |-> li.href, title |-> li.title]
  ELSE [href |-> NoHref, title |-> <<>>]

(***************************************************************************)
(* The path both passes compute from an outline href before normalising.   *)
(***************************************************************************)
OutlinePath(href, base_path) ==
  With(PathJoin(base_path,
                IF StartsWith(href, <<"/">>) THEN <<".">> \o href
                ELSE IF ~StartsWith(href, DotSlash) THEN DotSlash \o href
                ELSE href),
       LAMBDA h : IF EndsWith(h, DotHtml) THEN SubSeq(h, 1, Len(h) - 5) \o DotMd ELSE h)

TopicId(n) == <<"topic_", n>>

TopicFilename(topic_id) == topic_id \o <<".dita">>

(***************************************************************************)
(* collect_files: the state threaded through the traversal is the counter, *)
(* the index and the list of files to translate.                           *)
(***************************************************************************)
EmptyIndex == [k \in {} |-> [id |-> <<>>, filename |-> <<>>, title |-> <<>>]]

\* IndexLink without the test for a key already in the index
IndexLinkNoDedup(link, st, base_path) ==
  With(OutlinePath(link.href, base_path), LAMBDA href :
  With(normalize_path(href), LAMBDA normalized :
    LET n == st.topic_counter + 1
    IN  [topic_counter |-> n,
         file_to_topic |->
           (normalized :> [id |-> TopicId(n), filename |-> TopicFilename(TopicId(n)),
                           title |-> link.title]) @@ st.file_to_topic,
         files_to_process |->
           Append(st.files_to_process,
                  [href |-> href, topic_id |-> TopicId(n), title |-> link.title,
                   topic_filename |-> TopicFilename(TopicId(n))])]))

\* an indexer that schedules a document again each time its key is met again
IndexLinkRescheduling(link, st, base_path) ==
  With(OutlinePath(link.href, base_path), LAMBDA href :
  With(normalize_path(href), LAMBDA normalized :
      IF normalized \notin DOMAIN st.file_to_topic
        THEN IndexLinkNoDedup(link, st, base_path)
        ELSE [topic_counter |-> st.topic_counter,
              file_to_topic |-> st.file_to_topic,
              files_to_process |->
                Append(st.files_to_process,
                       [href |-> href,
                        topic_id |-> st.file_to_topic[normalized].id,
                        title |-> link.title,
                        topic_filename |-> st.file_to_topic[normalized].filename])]))

\* an indexer in which the title seen last for a key replaces the one seen first
IndexLinkLastTitle(link, st, base_path) ==
  With(OutlinePath(link.href, base_path), LAMBDA href :
  With(normalize_path(href), LAMBDA normalized :
      IF normalized \notin DOMAIN st.file_to_topic
        THEN IndexLinkNoDedup(link, st, base_path)
        ELSE [topic_counter |-> st.topic_counter,
              file_to_topic |->
                (normalized :> [id |-> st.file_to_topic[normalized].id,
                                filename |-> st.file_to_topic[normalized].filename,
                                title |-> link.title]) @@ st.file_to_topic,
              files_to_process |-> st.files_to_process]))

IndexLink(link, st, base_path) ==
  With(OutlinePath(link.href, base_path), LAMBDA href :
  With(normalize_path(href), LAMBDA normalized :
      IF normalized \notin DOMAIN st.file_to_topic
        THEN LET n == st.topic_counter + 1
                 topic_id == TopicId(n)
                 topic_filename == TopicFilename(topic_id)
             IN  [topic_counter |-> n,
                  file_to_topic |->
                    (normalized :> [id |-> topic_id, filename |-> topic_filename,
                                    title |-> link.title]) @@ st.file_to_topic,
                  files_to_process |->
                    Append(st.files_to_process,
                           [href |-> href, topic_id |-> topic_id, title |-> link.title,
                            topic_filename |-> topic_filename])]
        ELSE st))

RECURSIVE collect_files(_, _, _)
collect_files(ol, st, base_path) ==
  With(<<ol, st>>, LAMBDA v :
    IF v[1] = <<>> THEN v[2]
    ELSE LET li == Head(v[1])
         IN  With(FindAnchorDeep(li), LAMBDA link_tag :
             With(IF link_tag.href # NoHref /\ ~IsHttpUrl(link_tag.href)
                    THEN IndexLink(link_tag, v[2], base_path)
                    ELSE v[2],
                  LAMBDA st1 :
                    collect_files(Tail(v[1]),
                                  IF li.kids # <<>>
                                    THEN collect_files(li.kids, st1, base_path)
                                    ELSE st1,
                                  base_path))))

(***************************************************************************)
(* escape_xml, character by character.                                     *)
(***************************************************************************)
EscapeChar(c) ==
  IF c = "&" THEN <<"&", "a", "m", "p", ";">>
  ELSE IF c = "<" THEN <<"&", "l", "t", ";">>
  ELSE IF c = ">" THEN <<"&", "g", "t", ";">>
  ELSE IF c = "\"" THEN <<"&", "q", "u", "o", "t", ";">>
  ELSE IF c = "'" THEN <<"&", "a", "p", "o", "s", ";">>
  ELSE <<c>>

RECURSIVE escape_xml(_)
escape_xml(text) ==
  With(text, LAMBDA v :
    IF v = <<>> THEN <<>> ELSE EscapeChar(Head(v)) \o escape_xml(Tail(v)))

(***************************************************************************)
(* is_inline_image.  The image is seen through its parent: the parent's    *)
(* tag name ("none" for an image without parent) and the parent's children *)
(* in order, each with its tag name ("#text" for a string) and its text    *)
(* (get_text() for a tag, the string itself for a string).                 *)
(***************************************************************************)
MaxChildren == 3

Child(name, text) == [name |-> name, text |-> text]

ImgChild == Child("img", <<>>)

ChildKinds ==
  { ImgChild,
    Child("#text", <<"x">>),
    Child("#text", <<" ", "\n">>),
    Child("b", <<"x">>),
    Child("br", <<>>),
    Child("span", <<"\t">>) }

ParentNames ==
  {"p", "div", "li", "td", "th", "span", "strong", "em", "a", "blockquote",
   "[document]", "none"}

RECURSIVE ChildLists(_)
ChildLists(n) ==
  IF n = 0 THEN {<<>>}
  ELSE {<<c>> \o rest : c \in ChildKinds, rest \in ChildLists(n - 1)}

\* the children of a parent that holds at least one image
ImageContexts ==
  {cs \in UNION {ChildLists(n) : n \in 1..MaxChildren} :
     \E k \in 1..Len(cs) : cs[k].name = "img"}

\* text_content: the text of every child that is not an image
RECURSIVE SiblingText(_)
SiblingText(children) ==
  With(children, LAMBDA v :
    IF v = <<>> THEN <<>>
    ELSE (IF Head(v).name # "img" THEN Head(v).text ELSE <<>>) \o SiblingText(Tail(v)))

\* is_inline_image without the strip() of text_content
InlineWithoutStrip(parent, children) ==
  IF parent = "none" THEN FALSE
  ELSE IF parent = "span" THEN TRUE
  ELSE IF parent \in {"p", "div", "li", "td", "th"}
          /\ SiblingText(children) # <<>>
    THEN TRUE
  ELSE FALSE

is_inline_image(parent, children) ==
  IF parent = "none" THEN FALSE
  ELSE IF parent = "span" THEN TRUE
  ELSE IF parent \in {"p", "div", "li", "td", "th"}
          /\ HasNonWhitespace(SiblingText(children))
    THEN TRUE
  ELSE FALSE

(***************************************************************************)
(* The source documents.  A parsed document is the sequence of its anchors *)
(* and images in document order, each with the tags that enclose it,       *)
(* outermost first (path), and its href or src.                            *)
(***************************************************************************)
Anchor(path, href) == [kind |-> "a", path |-> path, href |-> href]

L_layersFrag == <<"/">> \o H_layers \o <<"#", "s">>

L_upIntro == <<".", ".", "/", "i", ".", "h", "t", "m", "l", "#", "a", "n", "c", "h", "o", "r">>

L_siteIntroQuery == H_introSite \o <<"?", "q">>

L_unknown == <<"g", "/", "z", ".", "h", "t", "m", "l">>

L_fragment == <<"#", "t", "o", "p">>

TableCell == <<"table", "tbody", "tr", "td">>

\* an image of a document: the tags that enclose it, its src, and the children
\* of its parent as is_inline_image sees them
Image(path, src, children) ==
  [kind |-> "img", path |-> path, href |-> src, children |-> children]

ImgLocal == <<"a", ".", "p", "n", "g">>

ImgUp == <<".", ".", "/", "i", "/", "a", ".", "p", "n", "g">>

ImgData == <<"d", "a", "t", "a", ":", "x">>

ImgExternal == Https \o <<"c", ".", "x", "/", "a", ".", "p", "n", "g">>

DocIntro ==
  << Anchor(<<"p">>, H_layers),
     Anchor(<<"p", "strong">>, L_layersFrag),
     Anchor(<<"p">>, H_other),
     Anchor(<<"h2">>, H_layers),
     Anchor(TableCell, L_layersFrag),
     Image(<<"p">>, ImgLocal, <<ImgChild>>),
     Image(TableCell, ImgLocal, <<ImgChild, Child("#text", <<"x">>)>>),
     Image(<<"p", "span">>, ImgLocal, <<ImgChild>>),
     Image(<<"ul", "li">>, ImgUp, <<ImgChild, Child("#text", <<"x">>)>>),
     Image(<<"p">>, ImgData, <<Child("#text", <<"x">>), ImgChild>>),
     Image(<<"p">>, ImgExternal, <<ImgChild>>),
     Image(<<>>, ImgLocal, <<>>) >>

DocLayers ==
  << Anchor(<<"p">>, L_upIntro),
     Anchor(<<"ul", "li">>, L_siteIntroQuery),
     Anchor(<<"p">>, L_unknown),
     Anchor(<<"p">>, L_fragment),
     Anchor(<<"ol", "li", "p">>, H_introRooted),
     Anchor(<<"p", "strong">>, H_other) >>

DocLayersNested ==
  << Anchor(<<"ul", "li", "ul", "li">>, H_intro),
     Anchor(<<"p", "em">>, H_intro),
     Anchor(<<"blockquote", "p">>, H_intro),
     Anchor(<<"ul", "li">>, H_layers) >>

P_intro == MD_DIR \o <<"/", "g", "/", "i", ".", "m", "d">>

P_layers == MD_DIR \o <<"/", "g", "/", "l", ".", "m", "d">>

P_bare == MD_DIR \o <<"/", "g", "/", "i">>

File(doc) == [status |-> "file", doc |-> doc]

Unreadable == [status |-> "unreadable", doc |-> <<>>]

\* the corpus snapshots a run may find under md/ (a path not listed is missing)
Disks ==
  { (P_intro :> File(DocIntro)) @@ (P_layers :> File(DocLayers)),
    (P_layers :> File(DocLayersNested)) @@ (P_bare :> Unreadable) }

(***************************************************************************)
(* md_to_dita_topic: link resolution (the loop over soup.find_all("a")).   *)
(***************************************************************************)
NoKey == <<>>

\* the key the translator looks up for an href, NoKey when it skips the link
LinkKey(href) ==
  IF StartsWith(href, <<"#">>) THEN NoKey
  ELSE LET is_url == IsHttpUrl(href)
           on_site == With(UrlNetloc(href), LAMBDA netloc :
                        Contains(netloc, HelpxAdobeCom) \/ Contains(netloc, AdobeCom))
       IN  IF is_url /\ ~on_site THEN NoKey
           ELSE With(BeforeChar(BeforeChar(IF is_url THEN UrlPath(href) ELSE href, "#"), "?"),
                     LAMBDA b :
                With(IF EndsWith(b, DotHtml) THEN SubSeq(b, 1, Len(b) - 5) ELSE b,
                     LAMBDA base_path :
                With(base_path \o DotMd, LAMBDA lp :
                  IF base_path = <<>> \/ base_path = <<"/">> THEN NoKey
                  ELSE normalize_path(
                         PathJoin(MD_DIR,
                                  IF StartsWith(lp, <<"/">>) THEN <<".">> \o lp
                                  ELSE IF ~StartsWith(lp, DotSlash) THEN DotSlash \o lp
                                  ELSE lp)))))

\* the data-dita-href the loop puts on the anchor, NoHref when it puts none
DitaHref(href, ftt) ==
  IF DOMAIN ftt = {} THEN NoHref
  ELSE With(LinkKey(href), LAMBDA normalized :
         IF normalized # NoKey /\ normalized \in DOMAIN ftt
           THEN ftt[normalized].filename
           ELSE NoHref)

(***************************************************************************)
(* The conversion of the tree: what becomes of an anchor, by the tags that *)
(* enclose it.                                                             *)
(***************************************************************************)
Out(kind, href) == [kind |-> kind, href |-> href]

\* the "a" branch of convert_element_content and of convert_list_item_content
RenderAnchor(a, ftt) ==
  With(DitaHref(a.href, ftt), LAMBDA dita :
    IF dita # NoHref THEN Out("xref_dita", dita)
    ELSE IF IsHttpUrl(a.href) THEN Out("xref_external", escape_xml(a.href))
    ELSE Out("text", <<>>))

\* get_text() of a tag that encloses the element: the text of a link is kept, an
\* image leaves nothing
Flattened(a) == IF a.kind = "img" THEN Out("dropped", <<>>) ELSE Out("text", <<>>)

\* the "img" branch of convert_element_content; the parent is the converted tag
RenderImage(img) ==
  IF img.href = <<>> THEN Out("dropped", <<>>)
  ELSE IF is_inline_image(img.path[Len(img.path)], img.children)
    THEN Out("image_inline", escape_xml(img.href))
    ELSE Out("image_break", escape_xml(img.href))

\* convert_element_content(element), the anchor or image being below the tags of rest
convert_element_content(rest, a, ftt) ==
  IF rest = <<>>
    THEN IF a.kind = "img" THEN RenderImage(a) ELSE RenderAnchor(a, ftt)
    ELSE Flattened(a)

\* convert_list_item_content(li)
convert_list_item_content(rest, a, ftt) ==
  IF rest = <<>>
    THEN IF a.kind = "img" THEN Out("dropped", <<>>) ELSE RenderAnchor(a, ftt)
  ELSE IF Head(rest) = "p" THEN convert_element_content(Tail(rest), a, ftt)
  ELSE IF Head(rest) \in {"pre", "code", "strong", "b", "em", "i"} THEN Flattened(a)
  ELSE Out("dropped", <<>>)

\* convert_table_to_dita(table): the cells of the rows of thead and tbody
convert_table_to_dita(rest, a, ftt) ==
  IF Len(rest) >= 3 /\ rest[1] \in {"thead", "tbody"} /\ rest[2] = "tr"
     /\ rest[3] \in {"td", "th"}
    THEN convert_element_content(SubSeq(rest, 4, Len(rest)), a, ftt)
    ELSE Out("dropped", <<>>)

\* Path(md_file_path).parent
Dirname(path) ==
  With(NormPath(path), LAMBDA q :
    With({i \in 1..Len(q) : q[i] = "/"}, LAMBDA slashes :
      IF slashes = {} THEN <<".">>
      ELSE SubSeq(q, 1, (CHOOSE m \in slashes : \A k \in slashes : k <= m) - 1)))

DataScheme == <<"d", "a", "t", "a", ":">>

\* resolve_image_path for a relative src that stays below the working directory:
\* the path of the image from dita/
resolve_image_path(img_src, md_file_path) ==
  IF StartsWith(img_src, DataScheme) \/ IsHttpUrl(img_src) THEN img_src
  ELSE <<".", ".", "/">> \o NormPath(PathJoin(Dirname(md_file_path), img_src))

\* the loop over soup.find_all("img"): a decomposed image is gone from the tree
ProcessImage(a, md_path) ==
  IF a.kind # "img" \/ a.href = <<>> THEN a
  ELSE IF StartsWith(a.href, DataScheme) THEN [kind |-> "removed", path |-> a.path, href |-> <<>>]
  ELSE With(resolve_image_path(a.href, md_path), LAMBDA resolved_path :
         IF IsHttpUrl(resolved_path)
           THEN [kind |-> "removed", path |-> a.path, href |-> <<>>]
           ELSE [kind |-> "img", path |-> a.path, href |-> resolved_path,
                 children |-> a.children])

\* the loop over soup.children at the end of md_to_dita_topic
ConvertTopLevel(a, ftt) ==
  LET path == a.path
  IN  IF a.kind = "removed" THEN Out("removed", <<>>)
      ELSE IF path = <<>>
        THEN IF a.kind = "img" /\ a.href # <<>>
               THEN Out("image_break", escape_xml(a.href))
               ELSE Out("dropped", <<>>)
      ELSE IF Head(path) = "h1" THEN Out("dropped", <<>>)
      ELSE IF Head(path) \in {"h2", "h3", "h4", "h5", "h6"} THEN Flattened(a)
      ELSE IF Head(path) = "p" THEN convert_element_content(Tail(path), a, ftt)
      ELSE IF Head(path) \in {"ul", "ol"}
        THEN IF Len(path) >= 2 /\ path[2] = "li"
               THEN convert_list_item_content(SubSeq(path, 3, Len(path)), a, ftt)
               ELSE Out("dropped", <<>>)
      ELSE IF Head(path) = "pre" THEN Flattened(a)
      ELSE IF Head(path) = "table" THEN convert_table_to_dita(Tail(path), a, ftt)
      ELSE Out("dropped", <<>>)

\* os.path.exists(md_path) and open(md_path), the path resolved as the OS does
DiskEntry(dsk, md_path) ==
  With(NormPath(md_path), LAMBDA q :
    IF q \in DOMAIN dsk THEN dsk[q] ELSE [status |-> "missing", doc |-> <<>>])

\* md_to_dita_topic: the topic returned for a source that is missing or readable
md_to_dita_topic(md_path, topic_id, title, ftt, dsk) ==
  With(DiskEntry(dsk, md_path), LAMBDA e :
    IF e.status = "missing"
      THEN [id |-> topic_id, title |-> title,
            body |-> <<Out("missing_notice", md_path)>>]
      ELSE [id |-> topic_id, title |-> title,
            body |-> [i \in 1..Len(e.doc) |->
                        ConvertTopLevel(ProcessImage(e.doc[i], md_path), ftt)]])

(***************************************************************************)
(* build_map_structure: the lines appended to ditamap_parts, each with its *)
(* indentation counted in units of two spaces.                             *)
(***************************************************************************)
Part(tag, indent, arg) == [tag |-> tag, indent |-> indent, arg |-> arg]

RECURSIVE build_map_structure(_, _, _, _)
build_map_structure(ol, indent, ftt, base_path) ==
  With(ol, LAMBDA v :
  IF v = <<>> THEN <<>>
  ELSE LET li == Head(v)
           link_tag == FindAnchorDirect(li)
           nested_ol == li.kids
       IN  With(normalize_path(OutlinePath(link_tag.href, base_path)), LAMBDA normalized :
       LET here ==
             IF link_tag.href # NoHref
               THEN IF IsHttpUrl(link_tag.href)
                      THEN IF nested_ol # <<>>
                             THEN build_map_structure(nested_ol, indent, ftt, base_path)
                             ELSE <<>>
                    ELSE IF normalized \in DOMAIN ftt
                      THEN IF nested_ol # <<>>
                             THEN <<Part("topicref_open", indent, ftt[normalized].filename)>>
                                  \o build_map_structure(nested_ol, indent + 1, ftt, base_path)
                                  \o <<Part("topicref_close", indent, <<>>)>>
                             ELSE <<Part("topicref", indent, ftt[normalized].filename)>>
                    ELSE <<>>
             ELSE IF li.text # NoText
               THEN IF HasNonWhitespace(li.text)
                      THEN <<Part("topichead_open", indent, escape_xml(li.text))>>
                           \o (IF nested_ol # <<>>
                                 THEN build_map_structure(nested_ol, indent + 1, ftt, base_path)
                                 ELSE <<>>)
                           \o <<Part("topichead_close", indent, <<>>)>>
                      ELSE <<>>
             ELSE IF nested_ol # <<>>
               THEN build_map_structure(nested_ol, indent, ftt, base_path)
             ELSE <<>>
       IN  here \o build_map_structure(Tail(v), indent, ftt, base_path)))

(***************************************************************************)
(* convert_headings_to_lists, one line of the input per step.              *)
(***************************************************************************)
MaxLines == 3

Strip(s) ==
  With(s, LAMBDA v :
    With({i \in 1..Len(v) : v[i] \notin Whitespace}, LAMBDA keep :
      IF keep = {} THEN <<>>
      ELSE SubSeq(v, SetMin(keep), CHOOSE m \in keep : \A k \in keep : k <= m)))

DigitChars == <<"0", "1", "2", "3", "4", "5", "6", "7", "8", "9">>

IsDigit(c) == \E d \in 1..10 : DigitChars[d] = c

\* str(n) for n >= 0
RECURSIVE Digits(_)
Digits(n) ==
  IF n < 10 THEN <<DigitChars[n + 1]>> ELSE Digits(n \div 10) \o <<DigitChars[(n % 10) + 1]>>

\* '    ' * indent_level
RECURSIVE Indent(_)
Indent(k) == IF k <= 0 THEN <<>> ELSE <<" ", " ", " ", " ">> \o Indent(k - 1)

\* the number of leading '#' of a stripped line
HeadingLevel(stripped) ==
  With({i \in 1..Len(stripped) : stripped[i] # "#"}, LAMBDA other :
    IF other = {} THEN Len(stripped) ELSE SetMin(other) - 1)

HeadingText(stripped) ==
  Strip(SubSeq(stripped, HeadingLevel(stripped) + 1, Len(stripped)))

\* re.match(r'^[\d.]+\s+(.+)$', heading_text): group 1, or the text when no match
CleanHeading(heading_text) ==
  With(heading_text, LAMBDA v :
    With({i \in 1..Len(v) : ~(IsDigit(v[i]) \/ v[i] = ".")}, LAMBDA notnum :
      With(SubSeq(v, IF notnum = {} THEN Len(v) + 1 ELSE SetMin(notnum), Len(v)),
           LAMBDA rest :
             IF Len(rest) < Len(v) /\ rest # <<>> /\ rest[1] \in Whitespace
                /\ HasNonWhitespace(rest)
               THEN LStrip(rest, Whitespace)
               ELSE v)))

\* while heading_stack and heading_stack[-1] >= level: heading_stack.pop()
RECURSIVE PopStack(_, _)
PopStack(stack, level) ==
  With(stack, LAMBDA v :
    IF v # <<>> /\ v[Len(v)] >= level
      THEN PopStack(SubSeq(v, 1, Len(v) - 1), level)
      ELSE v)

\* for clear_level in range(indent_level + 1, 10): del item_counters[clear_level]
ClearDeeper(counters, indent_level) ==
  [k \in DOMAIN counters \ ((indent_level + 1)..9) |-> counters[k]]

\* item_counters.get(level, 0) + 1
Bump(counters, level) ==
  With(counters, LAMBDA v :
    (level :> ((IF level \in DOMAIN v THEN v[level] ELSE 0) + 1)) @@ v)

NoCounters == [k \in {} |-> 0]

\* the body of the while loop for one line; st holds the three locals
HeadingLine(line, st) ==
  With(Strip(line), LAMBDA stripped :
      IF StartsWith(stripped, <<"#">>)
        THEN LET level == HeadingLevel(stripped)
                 indent_level == level - 2
                 stack == Append(PopStack(st.heading_stack, level), level)
             IN  With(Bump(ClearDeeper(st.item_counters, indent_level), indent_level),
                      LAMBDA counters :
                 IF level = 1 THEN st
                 ELSE [heading_stack |-> stack,
                       item_counters |-> counters,
                       output |-> Append(st.output,
                                         Indent(indent_level)
                                         \o Digits(counters[indent_level]) \o <<".", " ">>
                                         \o CleanHeading(HeadingText(stripped)))])
      ELSE IF stripped # <<>>
        THEN LET indent_level == Len(st.heading_stack)
                 counters == Bump(st.item_counters, indent_level)
                 numbered == IsDigit(stripped[1])
                             /\ Contains(SubSeq(stripped, 1, 5), <<".", " ">>)
                 bullet == StartsWith(stripped, <<"-", " ">>)
                 content ==
                   IF numbered
                     THEN SubSeq(stripped, Find(stripped, <<".", " ">>) + 2, Len(stripped))
                     ELSE Strip(SubSeq(stripped, 3, Len(stripped)))
             IN  IF numbered \/ bullet
                   THEN [heading_stack |-> st.heading_stack,
                         item_counters |-> counters,
                         output |-> Append(st.output,
                                           Indent(indent_level)
                                           \o Digits(counters[indent_level])
                                           \o <<".", " ">> \o content)]
                   ELSE st
      ELSE st)

\* the lines the outlines given to convert_headings_to_lists are made of
T_h1 == <<"#", " ", "T">>

T_h2 == <<"#", "#", " ", "A">>

T_h3 == <<" ", "#", "#", "#", " ", "1", ".", " ", "B">>

T_h4 == <<"#", "#", "#", "#", "C">>

T_h12 == <<"#", "#", "#", "#", "#", "#", "#", "#", "#", "#", "#", "#", " ", "D">>

T_numbered == <<"3", ".", " ", "[", "x", "]", "(", "u", ")">>

T_bullet == <<" ", " ", "-", " ", "[", "y", "]", "(", "v", ")">>

T_blank == <<>>

T_prose == <<"s", "e", "e">>

TocLines == {T_h1, T_h2, T_h3, T_h4, T_h12, T_numbered, T_bullet, T_blank, T_prose}

RECURSIVE LineLists(_)
LineLists(n) ==
  IF n = 0 THEN {<<>>}
  ELSE {<<l>> \o rest : l \in TocLines, rest \in LineLists(n - 1)}

TocTexts == UNION {LineLists(n) : n \in 1..MaxLines}

(***************************************************************************)
(* The run.                                                                *)
(*   pc                "build" (pass 1 pending), "translate" (pass 2),     *)
(*                     "write" (map built, not yet written), "done",       *)
(*                     "crashed" (an exception left main)                  *)
(*   toc, disk         the outline and the corpus, inputs of the run       *)
(*   topic_counter, file_to_topic, files_to_process                        *)
(*                     the locals of build_dita_map                        *)
(*   next_file         position of pass 2 in files_to_process              *)
(*   written           the topic files in the output directory             *)
(*   ditamap           the map lines built by pass 3                       *)
(*   map_written       the map file is in the output directory             *)
(*   run               number of the current run over the same inputs      *)
(*   pass1_index, prev_index                                               *)
(*                     the index as pass 1 of this run, and of the run     *)
(*                     before, left it                                     *)
(* The image classifier and the heading normaliser are pure functions of   *)
(* their argument; each is run on its own under a specification of its own *)
(* (pc = "image", pc = "headings"):                                        *)
(*   img_parent, img_children   the argument of is_inline_image            *)
(*   img_inline                 its result, once pc = "image_done"         *)
(*   md_lines                   the lines of the text being normalised     *)
(*   line_no                    the loop index i, counted from 1           *)
(*   heading_stack, item_counters, output   the locals of the loop         *)
(***************************************************************************)
(***************************************************************************)
(* The title of the map: parse_markdown_toc extracts it from toc.md, main  *)
(* prefers --title, build_dita_map falls back on the first link.  A title  *)
(* is a text; NoTitle stands for None.                                     *)
(***************************************************************************)
NoTitle == <<"<", "N", "o", "n", "e", ">">>

DefaultTitle == <<"D", "o", "c", "u", "m", "e", "n", "t", "a", "t", "i", "o", "n">>

\* bool(title): None and '' are false
Truthy(title) == title # NoTitle /\ title # <<>>

\* the first line whose strip() starts with '# ', without the '# ' and stripped
ExtractTitle(lines) ==
  With(lines, LAMBDA v :
    With({i \in 1..Len(v) : StartsWith(Strip(v[i]), <<"#", " ">>)}, LAMBDA hs :
      IF hs = {} THEN NoTitle
      ELSE With(Strip(v[SetMin(hs)]), LAMBDA stripped :
             Strip(SubSeq(stripped, 3, Len(stripped))))))

\* args.title or extracted_title
FinalTitle(title, extracted) == IF Truthy(title) THEN title ELSE extracted

\* a resolution that prefers the first link of the outline to the title it is given
FirstLinkBeforeDefaultOnly(title, toc_soup) ==
  IF toc_soup # <<>> /\ Truthy(FindAnchorDeep(Head(toc_soup)).title)
    THEN FindAnchorDeep(Head(toc_soup)).title
    ELSE IF Truthy(title) THEN title ELSE DefaultTitle

\* doc_title of build_dita_map: title, else the text of the first link inside the
\* first li, else "Documentation"
DocTitle(title, toc_soup) ==
  IF Truthy(title) THEN title
  ELSE With(IF toc_soup = <<>> THEN NoTitle ELSE FindAnchorDeep(Head(toc_soup)).title,
            LAMBDA first :
              IF Truthy(first) THEN first ELSE DefaultTitle)

\* the toc.md files main is run on, as lines
T_titleSpaced == <<" ", "#", " ", " ", "G", " ">>

T_hashtag == <<"#", "T">>

(***************************************************************************)
(* parse_markdown_toc: the format of the outline file and its blank lines. *)
(***************************************************************************)
\* the while loop of convert_headings_to_lists over all lines
RECURSIVE ConvertLines(_, _)
ConvertLines(lines, st) ==
  With(lines, LAMBDA v :
    IF v = <<>> THEN st
    ELSE ConvertLines(Tail(v), HeadingLine(Head(v), st)))

\* '\n'.join(output) split on '\n' again: an empty output is one empty line
convert_headings_to_lists(lines) ==
  With(ConvertLines(lines, [heading_stack |-> <<>>, item_counters |-> NoCounters,
                            output |-> <<>>]).output,
       LAMBDA out : IF out = <<>> THEN <<T_blank>> ELSE out)

has_headings(lines) ==
  \E i \in 1..Len(lines) : StartsWith(Strip(lines[i]), <<"#">>)

has_indented_lists(lines) ==
  \E i \in 1..Len(lines) :
    /\ StartsWith(lines[i], <<" ", " ">>)
    /\ IF Strip(lines[i]) # <<>>
         THEN StartsWith(Strip(lines[i]), <<"[">>) \/ IsDigit(Strip(lines[i])[1])
         ELSE FALSE

\* a non-blank line that starts with two spaces or a tab
IsListLine(line) ==
  /\ Strip(line) # <<>>
  /\ (StartsWith(line, <<" ", " ">>) \/ StartsWith(line, <<"\t">>))

\* the loop that fills cleaned_lines
SkipBlankLines(lines) ==
  With(lines, LAMBDA v :
    With({i \in 1..Len(v) :
            ~(/\ Strip(v[i]) = <<>>
              /\ i > 1 /\ IsListLine(v[i - 1])
              /\ i < Len(v) /\ IsListLine(v[i + 1]))}, LAMBDA keep :
      [n \in 1..Cardinality(keep) |->
         v[CHOOSE i \in keep : Cardinality({k \in keep : k <= i}) = n]]))

\* the lines handed to the markdown library
parse_markdown_toc(lines) ==
  SkipBlankLines(IF has_headings(lines) /\ ~has_indented_lists(lines)
                   THEN convert_headings_to_lists(lines)
                   ELSE lines)

T_tabNumbered == <<"\t", "1", ".", " ", "[", "x", "]", "(", "u", ")">>

T_indentedNumbered == <<" ", " ", "1", ".", " ", "[", "x", "]", "(", "u", ")">>

T_indentedLink == <<" ", " ", "[", "x", "]", "(", "u", ")">>

TocFiles ==
  { <<T_numbered>>,
    <<T_h2, T_indentedNumbered>>,
    <<T_h2, T_tabNumbered>>,
    <<T_h2, T_bullet>>,
    <<T_indentedLink, T_blank, T_indentedLink>>,
    <<T_tabNumbered, T_blank, T_tabNumbered>>,
    <<T_numbered, T_blank, T_numbered>>,
    <<T_h1, T_numbered>>,
    <<T_h2, T_titleSpaced, T_h1>>,
    <<T_hashtag, T_numbered>> }

CliTitles == {NoTitle, <<>>, <<"M", "y">>}

VARIABLES pc, toc, disk, topic_counter, file_to_topic, files_to_process,
          next_file, written, ditamap, map_written, run, pass1_index, prev_index,
          img_parent, img_children, img_inline,
          md_lines, line_no, heading_stack, item_counters, output,
          md_dir_exists, toc_exists, cli_title, extracted_title, final_title,
          doc_title, exit_code, cleaned_lines

runVars == <<toc, disk, topic_counter, file_to_topic, files_to_process,
             next_file, written, ditamap, map_written, run, pass1_index, prev_index>>

imgVars == <<img_parent, img_children, img_inline>>

headVars == <<md_lines, line_no, heading_stack, item_counters, output>>

mainVars == <<md_dir_exists, toc_exists, cli_title, extracted_title, final_title,
              doc_title, exit_code, cleaned_lines>>

vars == <<pc, runVars, imgVars, headVars, mainVars>>

NoFiles == [f \in {} |-> [id |-> <<>>, title |-> <<>>, body |-> <<>>]]

\* a counter that outlives the run, as a module-level global would
StaleCounterState ==
  [topic_counter |-> topic_counter, file_to_topic |-> EmptyIndex, files_to_process |-> <<>>]

\* build_dita_map starts every pass 1 from its own fresh locals
FreshIndexState ==
  [topic_counter |-> 0, file_to_topic |-> EmptyIndex, files_to_process |-> <<>>]

NoRun ==
  /\ toc = <<>>
  /\ disk = [q \in {} |-> Unreadable]
  /\ topic_counter = 0
  /\ file_to_topic = EmptyIndex
  /\ files_to_process = <<>>
  /\ next_file = 1
  /\ written = NoFiles
  /\ ditamap = <<>>
  /\ map_written = FALSE
  /\ run = 1
  /\ pass1_index = EmptyIndex
  /\ prev_index = EmptyIndex

\* main has found md/ and md/toc.md, no --title was given, nothing is resolved yet
NoMain ==
  /\ md_dir_exists = TRUE
  /\ toc_exists = TRUE
  /\ cli_title = NoTitle
  /\ extracted_title = NoTitle
  /\ final_title = NoTitle
  /\ doc_title = NoTitle
  /\ exit_code = 0
  /\ cleaned_lines = <<>>

NoImage ==
  /\ img_parent = "none"
  /\ img_children = <<>>
  /\ img_inline = FALSE

NoHeadings ==
  /\ md_lines = <<>>
  /\ line_no = 1
  /\ heading_stack = <<>>
  /\ item_counters = NoCounters
  /\ output = <<>>

Init ==
  /\ pc = "build"
  /\ NoMain
  /\ NoImage
  /\ NoHeadings
  /\ toc \in Outlines
  /\ disk \in Disks
  /\ topic_counter = 0
  /\ file_to_topic = EmptyIndex
  /\ files_to_process = <<>>
  /\ next_file = 1
  /\ written = NoFiles
  /\ ditamap = <<>>
  /\ map_written = FALSE
  /\ run = 1
  /\ pass1_index = EmptyIndex
  /\ prev_index = EmptyIndex

\* pass 1 of build_dita_map
CollectFiles ==
  /\ pc = "build"
  /\ \E st \in {collect_files(toc, FreshIndexState, MD_DIR)} :
         /\ topic_counter' = st.topic_counter
         /\ file_to_topic' = st.file_to_topic
         /\ files_to_process' = st.files_to_process
         /\ pass1_index' = st.file_to_topic
  /\ next_file' = 1
  /\ pc' = "translate"
  /\ UNCHANGED <<toc, disk, written, ditamap, map_written, run, prev_index>>
  /\ UNCHANGED <<imgVars, headVars, mainVars>>

\* a translator that registers the document it translates under its own path
TranslateNextRegistering ==
  /\ pc = "translate"
  /\ next_file <= Len(files_to_process)
  /\ LET f == files_to_process[next_file]
     IN  /\ written' =
              (f.topic_filename :>
                 md_to_dita_topic(f.href, f.topic_id, f.title, file_to_topic, disk))
              @@ written
         /\ file_to_topic' =
              (f.href :> [id |-> f.topic_id, filename |-> f.topic_filename,
                          title |-> f.title]) @@ file_to_topic
         /\ next_file' = next_file + 1
         /\ pc' = pc
  /\ UNCHANGED <<toc, disk, topic_counter, files_to_process,
                 ditamap, map_written, run, pass1_index, prev_index>>
  /\ UNCHANGED <<imgVars, headVars, mainVars>>

\* one iteration of pass 2: translate a document and write its topic file
TranslateNext ==
  /\ pc = "translate"
  /\ next_file <= Len(files_to_process)
  /\ LET f == files_to_process[next_file]
     IN  IF DiskEntry(disk, f.href).status = "unreadable"
           THEN /\ pc' = "crashed"
                /\ UNCHANGED <<written, next_file>>
           ELSE /\ written' =
                     (f.topic_filename :>
                        md_to_dita_topic(f.href, f.topic_id, f.title, file_to_topic, disk))
                     @@ written
                /\ next_file' = next_file + 1
                /\ pc' = pc
  /\ UNCHANGED <<toc, disk, topic_counter, file_to_topic, files_to_process,
                 ditamap, map_written, run, pass1_index, prev_index>>
  /\ UNCHANGED <<imgVars, headVars, mainVars>>

\* a map builder that does not wait for the end of pass 2
BuildMapBeforeTopics ==
  /\ pc = "translate"
  /\ ditamap' = build_map_structure(toc, 1, file_to_topic, MD_DIR)
  /\ pc' = "write"
  /\ UNCHANGED <<toc, disk, topic_counter, file_to_topic, files_to_process,
                 next_file, written, map_written, run, pass1_index, prev_index>>
  /\ UNCHANGED <<imgVars, headVars, mainVars>>

\* pass 3 of build_dita_map
BuildMap ==
  /\ pc = "translate"
  /\ next_file > Len(files_to_process)
  /\ ditamap' = build_map_structure(toc, 1, file_to_topic, MD_DIR)
  /\ pc' = "write"
  /\ UNCHANGED <<toc, disk, topic_counter, file_to_topic, files_to_process,
                 next_file, written, map_written, run, pass1_index, prev_index>>
  /\ UNCHANGED <<imgVars, headVars, mainVars>>

\* main writes userguide.ditamap
WriteMap ==
  /\ pc = "write"
  /\ map_written' = TRUE
  /\ pc' = "done"
  /\ UNCHANGED <<toc, disk, topic_counter, file_to_topic, files_to_process,
                 next_file, written, ditamap, run, pass1_index, prev_index>>
  /\ UNCHANGED <<imgVars, headVars, mainVars>>

\* the script is run again on the same outline: main clears the output directory
Rerun ==
  /\ pc = "done"
  /\ run < MaxRuns
  /\ run' = run + 1
  /\ prev_index' = pass1_index
  /\ written' = NoFiles
  /\ map_written' = FALSE
  /\ ditamap' = <<>>
  /\ pc' = "build"
  /\ UNCHANGED <<toc, disk, topic_counter, file_to_topic, files_to_process,
                 next_file, pass1_index>>
  /\ UNCHANGED <<imgVars, headVars, mainVars>>

Next == CollectFiles \/ TranslateNext \/ BuildMap \/ WriteMap \/ Rerun

Spec == Init /\ [][Next]_vars

(***************************************************************************)
(* main up to the first pass of build_dita_map.  written and map_written   *)
(* start as the *.dita and *.ditamap files an earlier run left in dita/;   *)
(* md_lines holds the lines of toc.md and toc its parsed outline.          *)
(***************************************************************************)
OldTopics ==
  (TopicFilename(TopicId(1)) :> [id |-> TopicId(1), title |-> <<"O", "l", "d">>, body |-> <<>>])

InitMain ==
  /\ pc = "main"
  /\ NoImage
  /\ md_dir_exists \in BOOLEAN
  /\ toc_exists \in {e \in BOOLEAN : e => md_dir_exists}
  /\ IF toc_exists
       THEN toc \in Outlines /\ md_lines \in TocFiles
       ELSE toc = <<>> /\ md_lines = <<>>
  /\ cli_title \in CliTitles
  /\ written \in {NoFiles, OldTopics}
  /\ map_written \in BOOLEAN
  /\ disk = [q \in {} |-> Unreadable]
  /\ topic_counter = 0
  /\ file_to_topic = EmptyIndex
  /\ files_to_process = <<>>
  /\ next_file = 1
  /\ ditamap = <<>>
  /\ run = 1
  /\ pass1_index = EmptyIndex
  /\ prev_index = EmptyIndex
  /\ line_no = 1
  /\ heading_stack = <<>>
  /\ item_counters = NoCounters
  /\ output = <<>>
  /\ extracted_title = NoTitle
  /\ final_title = NoTitle
  /\ doc_title = NoTitle
  /\ exit_code = 0
  /\ cleaned_lines = <<>>

\* a main that clears dita/ before it looks for md/ and md/toc.md
MainCheckAfterClean ==
  /\ pc = "main"
  /\ written' = NoFiles
  /\ map_written' = FALSE
  /\ IF ~md_dir_exists \/ ~toc_exists
       THEN pc' = "exit" /\ exit_code' = 1
       ELSE pc' = "parse" /\ exit_code' = exit_code
  /\ UNCHANGED <<toc, disk, topic_counter, file_to_topic, files_to_process, next_file,
                 ditamap, run, pass1_index, prev_index>>
  /\ UNCHANGED <<md_dir_exists, toc_exists, cli_title, extracted_title, final_title,
                 doc_title, cleaned_lines>>
  /\ UNCHANGED <<imgVars, headVars>>

\* the two existence checks of main, each ending in sys.exit(1)
MainCheck ==
  /\ pc = "main"
  /\ IF ~md_dir_exists
       THEN pc' = "exit" /\ exit_code' = 1
       ELSE IF ~toc_exists
         THEN pc' = "exit" /\ exit_code' = 1
         ELSE pc' = "parse" /\ exit_code' = exit_code
  /\ UNCHANGED <<md_dir_exists, toc_exists, cli_title, extracted_title, final_title,
                 doc_title, cleaned_lines>>
  /\ UNCHANGED <<runVars, imgVars, headVars>>

\* parse_markdown_toc and the choice of final_title
ParseToc ==
  /\ pc = "parse"
  /\ extracted_title' = ExtractTitle(md_lines)
  /\ final_title' = FinalTitle(cli_title, extracted_title')
  /\ cleaned_lines' = parse_markdown_toc(md_lines)
  /\ pc' = "clean"
  /\ UNCHANGED <<md_dir_exists, toc_exists, cli_title, doc_title, exit_code>>
  /\ UNCHANGED <<runVars, imgVars, headVars>>

\* main removes the *.dita and *.ditamap files of dita/
CleanOutput ==
  /\ pc = "clean"
  /\ written' = NoFiles
  /\ map_written' = FALSE
  /\ pc' = "title"
  /\ UNCHANGED <<toc, disk, topic_counter, file_to_topic, files_to_process, next_file,
                 ditamap, run, pass1_index, prev_index>>
  /\ UNCHANGED <<imgVars, headVars, mainVars>>

\* the head of build_dita_map: doc_title
ResolveDocTitle ==
  /\ pc = "title"
  /\ doc_title' = DocTitle(final_title, toc)
  /\ pc' = "titled"
  /\ UNCHANGED <<md_dir_exists, toc_exists, cli_title, extracted_title, final_title,
                 exit_code, cleaned_lines>>
  /\ UNCHANGED <<runVars, imgVars, headVars>>

NextMain == MainCheck \/ ParseToc \/ CleanOutput \/ ResolveDocTitle

SpecMain == InitMain /\ [][NextMain]_vars

(***************************************************************************)
(* is_inline_image on its own.                                             *)
(***************************************************************************)
InitImage ==
  /\ pc = "image"
  /\ NoRun
  /\ NoMain
  /\ NoHeadings
  /\ img_parent \in ParentNames
  /\ img_children \in ImageContexts
  /\ img_inline = FALSE

ClassifyImage ==
  /\ pc = "image"
  /\ img_inline' = is_inline_image(img_parent, img_children)
  /\ pc' = "image_done"
  /\ UNCHANGED <<img_parent, img_children, runVars, headVars, mainVars>>

NextImage == ClassifyImage

SpecImage == InitImage /\ [][NextImage]_vars

(***************************************************************************)
(* convert_headings_to_lists on its own.                                   *)
(***************************************************************************)
InitHeadings ==
  /\ pc = "headings"
  /\ NoRun
  /\ NoMain
  /\ NoImage
  /\ md_lines \in TocTexts
  /\ line_no = 1
  /\ heading_stack = <<>>
  /\ item_counters = NoCounters
  /\ output = <<>>

\* one iteration of the while loop
HeadingStep ==
  /\ pc = "headings"
  /\ line_no <= Len(md_lines)
  /\ \E st \in {HeadingLine(md_lines[line_no],
                              [heading_stack |-> heading_stack,
                               item_counters |-> item_counters,
                               output |-> output])} :
         /\ heading_stack' = st.heading_stack
         /\ item_counters' = st.item_counters
         /\ output' = st.output
  /\ line_no' = line_no + 1
  /\ UNCHANGED <<pc, md_lines, runVars, imgVars, mainVars>>

\* the loop is over: the function returns the joined output
HeadingsReturn ==
  /\ pc = "headings"
  /\ line_no > Len(md_lines)
  /\ pc' = "headings_done"
  /\ UNCHANGED <<md_lines, line_no, heading_stack, item_counters, output,
                 runVars, imgVars, mainVars>>

NextHeadings == HeadingStep \/ HeadingsReturn

SpecHeadings == InitHeadings /\ [][NextHeadings]_vars

(***************************************************************************)
(* Properties of the indexer.                                              *)
(***************************************************************************)
\* pass 1 of the current run is over
AfterPass1 == pc \in {"translate", "write", "done", "crashed"}

\* the hrefs of the outline's own anchors, depth first and left to right
RECURSIVE OwnLinks(_)
OwnLinks(ol) ==
  With(ol, LAMBDA v :
    IF v = <<>> THEN <<>>
    ELSE (IF Head(v).href # NoHref THEN <<Head(v)>> ELSE <<>>)
         \o OwnLinks(Head(v).kids) \o OwnLinks(Tail(v)))

IndexKey(href) == normalize_path(OutlinePath(href, MD_DIR))

\* the keys met by the traversal, in the order met, the external links left out
EncounterKeys(ol) ==
  With(SelectSeq(OwnLinks(ol), LAMBDA li : ~IsHttpUrl(li.href)), LAMBDA ls :
    [i \in 1..Len(ls) |-> IndexKey(ls[i].href)])

\* a sequence without the later occurrences of its elements
FirstOccurrences(seq) ==
  With(seq, LAMBDA v :
    LET first == {i \in 1..Len(v) : \A j \in 1..(i - 1) : v[j] # v[i]}
        nth[k \in 1..Cardinality(first)] ==
          CHOOSE i \in first : Cardinality({j \in first : j < i}) = k - 1
    IN  [k \in 1..Cardinality(first) |-> v[nth[k]]])

\* C1: after pass 1 the index holds one record per distinct key of the outline,
\* the k-th distinct key in order of first encounter has id topic_k and filename
\* topic_k.dita, the counter is the number of keys, and no two filenames agree
C1_IndexInEncounterOrder ==
  AfterPass1 =>
    \E ks \in {FirstOccurrences(EncounterKeys(toc))} :
      /\ DOMAIN file_to_topic = {ks[i] : i \in 1..Len(ks)}
      /\ topic_counter = Len(ks)
      /\ \A i \in 1..Len(ks) :
           /\ file_to_topic[ks[i]].id = <<"topic_", i>>
           /\ file_to_topic[ks[i]].filename = <<"topic_", i, ".dita">>
      /\ \A k1, k2 \in DOMAIN file_to_topic :
           k1 # k2 => file_to_topic[k1].filename # file_to_topic[k2].filename

\* two distinct keys were indexed
C1_Witness ==
  /\ AfterPass1
  /\ Cardinality(DOMAIN file_to_topic) = 2

\* the outline repeats a key and pass 1 is over (reached once three items fit)
C1_RepeatedKey ==
  /\ AfterPass1
  /\ Len(EncounterKeys(toc)) > Cardinality(DOMAIN file_to_topic)

\* C2: pass 1 of a later run over the same outline leaves the same index, key by
\* key the same id, filename and title, and the same list of files to translate
C2_RerunSameIndex ==
  (run > 1 /\ AfterPass1) =>
    /\ file_to_topic = prev_index
    /\ \A i \in 1..Len(files_to_process) :
         files_to_process[i].topic_id = <<"topic_", i>>

\* a second run has indexed an outline with two documents
C2_Witness ==
  /\ run = 2
  /\ AfterPass1
  /\ Cardinality(DOMAIN file_to_topic) = 2
  /\ prev_index = file_to_topic

\* C10: from the end of pass 1 on, the index is what pass 1 left: neither a
\* translation nor the map builder changes it
C10_IndexFrozen ==
  AfterPass1 => file_to_topic = pass1_index

\* a run is over in which documents were translated and the map was built
C10_Witness ==
  /\ pc = "done"
  /\ written # NoFiles
  /\ ditamap # <<>>
  /\ file_to_topic = pass1_index

\* the spelling two link targets share when they differ only by a trailing slash,
\* by the .html extension or by the site prefix of an absolute URL
SitePrefix == Https \o HelpxAdobeCom \o <<"/">>

TargetSpelling(href) ==
  With(IF StartsWith(href, SitePrefix)
         THEN SubSeq(href, Len(SitePrefix) + 1, Len(href)) ELSE href,
       LAMBDA h1 :
  With(IF EndsWith(h1, <<"/">>) THEN SubSeq(h1, 1, Len(h1) - 1) ELSE h1, LAMBDA h2 :
    IF EndsWith(h2, DotHtml) THEN SubSeq(h2, 1, Len(h2) - 5) ELSE h2))

NoRecord == [id |-> <<>>, filename |-> <<>>, title |-> <<>>]

\* the record pass 1 leaves for an outline link, NoRecord when it leaves none
RecordOf(href) ==
  IF ~IsHttpUrl(href) /\ IndexKey(href) \in DOMAIN file_to_topic
    THEN file_to_topic[IndexKey(href)]
    ELSE NoRecord

\* C3: two outline links whose targets differ only by a trailing slash, by the
\* .html extension or by the site prefix are mapped to one and the same record
C3_SpellingsShareRecord ==
  AfterPass1 =>
    \E ls \in {OwnLinks(toc)} :
      \A i, j \in 1..Len(ls) :
        TargetSpelling(ls[i].href) = TargetSpelling(ls[j].href) =>
          /\ RecordOf(ls[i].href) # NoRecord
          /\ RecordOf(ls[i].href) = RecordOf(ls[j].href)

(***************************************************************************)
(* Properties of the translator.                                           *)
(***************************************************************************)
\* the entries of files_to_process whose topic file has been written
Translated == {i \in 1..Len(files_to_process) :
                 files_to_process[i].topic_filename \in DOMAIN written}

SourceOf(i) == DiskEntry(disk, files_to_process[i].href)

TopicOf(i) == written[files_to_process[i].topic_filename]

\* C4: in a translated topic every link whose key is in the index is an internal
\* cross-reference to the record's filename, whatever tags enclose the link
C4_IndexedLinksAreXrefs ==
  \A i \in Translated :
    \E e \in {SourceOf(i)} :
      e.status = "file" =>
        \A j \in 1..Len(e.doc) :
          \E k \in {LinkKey(e.doc[j].href)} :
            (e.doc[j].kind = "a" /\ k \in DOMAIN file_to_topic) =>
              TopicOf(i).body[j] = Out("xref_dita", file_to_topic[k].filename)

\* C5: with guide/intro and guide/layers in the outline, the link
\* ../intro.html#anchor in a paragraph of layers gets intro's key and is an
\* internal cross-reference to intro's filename
C5_RelativeLinkResolved ==
  \A i \in Translated :
    \E e \in {SourceOf(i)} :
      (/\ e.status = "file"
       /\ NormPath(files_to_process[i].href) = P_layers
       /\ P_intro \in DOMAIN file_to_topic) =>
        \A j \in 1..Len(e.doc) :
          (e.doc[j].href = L_upIntro /\ e.doc[j].path = <<"p">>) =>
            /\ LinkKey(L_upIntro) = P_intro
            /\ TopicOf(i).body[j] = Out("xref_dita", file_to_topic[P_intro].filename)

(***************************************************************************)
(* Properties of the map.                                                  *)
(***************************************************************************)
\* the filenames the map refers to, in the order of the map
MapRefs(dm) ==
  With(SelectSeq(dm, LAMBDA part : part.tag \in {"topicref", "topicref_open"}), LAMBDA rs :
    [i \in 1..Len(rs) |-> rs[i].arg])

\* C6: when a source is missing the run goes on: the topic is written with its id,
\* its title and the missing-file notice as its whole body, every other document
\* has its topic, and the map refers to the topic at the place of its outline entry
C6_MissingSourceStillMapped ==
  /\ pc = "crashed" => SourceOf(next_file).status # "missing"
  /\ pc = "done" =>
       \A i \in 1..Len(files_to_process) :
         SourceOf(i).status = "missing" =>
           \E f \in {files_to_process[i]} :
             /\ Translated = 1..Len(files_to_process)
             /\ TopicOf(i) = [id |-> f.topic_id, title |-> f.title,
                              body |-> <<Out("missing_notice", f.href)>>]
             /\ \E ks \in {EncounterKeys(toc)}, refs \in {MapRefs(ditamap)} :
                  \A n \in 1..Len(ks) :
                    ks[n] = normalize_path(f.href) =>
                      n <= Len(refs) /\ refs[n] = f.topic_filename

\* the map that mirrors an outline: a reference for every link, wrapping the
\* references of its children; an external link and an item without link and
\* without label left out, their children in their place
RECURSIVE MirrorMap(_, _)
MirrorMap(ol, depth) ==
  With(ol, LAMBDA v :
    IF v = <<>> THEN <<>>
    ELSE LET li == Head(v)
             here ==
               IF li.href # NoHref
                 THEN IF IsHttpUrl(li.href) THEN MirrorMap(li.kids, depth)
                      ELSE IF li.kids # <<>>
                        THEN <<Part("topicref_open", depth, RecordOf(li.href).filename)>>
                             \o MirrorMap(li.kids, depth + 1)
                             \o <<Part("topicref_close", depth, <<>>)>>
                      ELSE <<Part("topicref", depth, RecordOf(li.href).filename)>>
               ELSE IF li.text # NoText /\ HasNonWhitespace(li.text)
                 THEN <<Part("topichead_open", depth, escape_xml(li.text))>>
                      \o MirrorMap(li.kids, depth + 1)
                      \o <<Part("topichead_close", depth, <<>>)>>
               ELSE MirrorMap(li.kids, depth)
         IN  here \o MirrorMap(Tail(v), depth))

\* C7: the map mirrors the outline, entry by entry and depth by depth
C7_MapMirrorsOutline ==
  pc \in {"write", "done"} => ditamap = MirrorMap(toc, 1)

(***************************************************************************)
(* Properties of is_inline_image.                                          *)
(***************************************************************************)
\* some child other than an image carries a character that is not whitespace
TextBesidesImage ==
  \E k \in 1..Len(img_children) :
    /\ img_children[k].name # "img"
    /\ \E c \in 1..Len(img_children[k].text) : img_children[k].text[c] \notin Whitespace

\* C8: an image is inline exactly when its parent is a span, or its parent is a
\* p, div, li, td or th that holds non-whitespace text besides the image; so an
\* image with text in a table cell is inline, the sole image of a paragraph block
C8_InlineIffSpanOrTextInBlock ==
  pc = "image_done" =>
    img_inline = (\/ img_parent = "span"
                  \/ img_parent \in {"p", "div", "li", "td", "th"} /\ TextBesidesImage)

C8_Witness ==
  /\ pc = "image_done"
  /\ img_parent = "td"
  /\ img_children = <<ImgChild, Child("#text", <<"x">>)>>
  /\ img_inline

\* C8 as stated: the containers whose text makes an image inline are the
\* paragraph, the list item and the table cell only
C8_ContainersWithoutDiv ==
  pc = "image_done" =>
    img_inline = (\/ img_parent = "span"
                  \/ img_parent \in {"p", "li", "td", "th"} /\ TextBesidesImage)

(***************************************************************************)
(* Properties of convert_headings_to_lists.                                *)
(***************************************************************************)
HeadingOnly == \A i \in 1..Len(md_lines) : StartsWith(Strip(md_lines[i]), <<"#">>)

LevelAt(i) == HeadingLevel(Strip(md_lines[i]))

\* the position of heading i among the headings of its level since the last
\* heading of a lower level (the level-1 title, which is dropped, aside)
SiblingNumber(i) ==
  1 + Cardinality({j \in 1..(i - 1) :
                     /\ LevelAt(j) = LevelAt(i)
                     /\ \A k \in (j + 1)..(i - 1) :
                          ~(LevelAt(k) >= 2 /\ LevelAt(k) < LevelAt(i))})

NumberedEntry(i) ==
  Indent(LevelAt(i) - 2) \o Digits(SiblingNumber(i)) \o <<".", " ">>
  \o CleanHeading(HeadingText(Strip(md_lines[i])))

\* C9: of a heading-only outline the level-1 heading is dropped and every heading
\* of level L >= 2 is an entry at depth L - 2, numbered by its position among the
\* headings of its depth under the same parent heading
C9_HeadingsNumberedPerScope ==
  (pc = "headings_done" /\ HeadingOnly) =>
    \E kept \in {SelectSeq([i \in 1..Len(md_lines) |-> i], LAMBDA i : LevelAt(i) >= 2)} :
      output = [n \in 1..Len(kept) |-> NumberedEntry(kept[n])]

\* the filenames of the records of the index
IndexFilenames == {file_to_topic[k].filename : k \in DOMAIN file_to_topic}

\* C11: a run that completes has written one topic file per record of the index,
\* each by one write: the written filenames are the index's filenames, and the
\* number of files translated and written (next_file - 1) is their number, also
\* when a key occurs several times in the outline
C11_OneTopicPerRecord ==
  /\ AfterPass1 => Cardinality(DOMAIN written) = next_file - 1
  /\ pc = "done" =>
       /\ DOMAIN written = IndexFilenames
       /\ Cardinality(DOMAIN written) = Cardinality(DOMAIN file_to_topic)
       /\ next_file - 1 = Cardinality(DOMAIN file_to_topic)

C11_Witness ==
  /\ pc = "done"
  /\ Len(EncounterKeys(toc)) = 2
  /\ Cardinality(DOMAIN file_to_topic) = 1
  /\ DOMAIN written = IndexFilenames

\* C12: no failure of a single document aborts the run: a run never ends in the
\* middle of pass 2, and when it is done every indexed document has its topic
\* and the map is written
C12_DocumentFailureConfined ==
  /\ pc # "crashed"
  /\ pc = "done" => (map_written /\ \A i \in 1..Len(files_to_process) :
                                      files_to_process[i].topic_filename \in DOMAIN written)

(***************************************************************************)
(* Properties of main.                                                     *)
(***************************************************************************)
InputsMissing == ~md_dir_exists \/ ~toc_exists

\* C13: when md/ or md/toc.md is missing the run ends with exit code 1, and no
\* step of it writes or deletes a topic file or the map
C13_MissingInputsAbortUntouched ==
  /\ [](InputsMissing =>
          /\ pc \in {"main", "exit"}
          /\ pc = "exit" => exit_code = 1)
  /\ [][InputsMissing => (written' = written /\ map_written' = map_written)]_vars

C13_Witness ==
  /\ pc = "exit"
  /\ exit_code = 1
  /\ ~toc_exists
  /\ written = OldTopics
  /\ map_written

\* the line of toc.md that parse_markdown_toc takes the title from, 0 when none
TitleLine ==
  IF \E i \in 1..Len(md_lines) : StartsWith(Strip(md_lines[i]), <<"#", " ">>)
    THEN SetMin({i \in 1..Len(md_lines) : StartsWith(Strip(md_lines[i]), <<"#", " ">>)})
    ELSE 0

HeadingTitle ==
  With(Strip(md_lines[TitleLine]), LAMBDA l : Strip(SubSeq(l, 3, Len(l))))

\* the links of the first entry of the outline, its own and those below it
FirstEntryLinks == IF toc = <<>> THEN <<>> ELSE OwnLinks(<<Head(toc)>>)

\* C14: the map title is the --title argument when it is given and not empty;
\* else the text of the first '# ' line of toc.md; else the text of the first
\* link inside the first entry of the outline, when there is one and it is not
\* empty; else "Documentation"
C14_TitleByPriority ==
  pc = "titled" =>
    doc_title =
      IF cli_title # NoTitle /\ cli_title # <<>> THEN cli_title
      ELSE IF TitleLine # 0 THEN HeadingTitle
      ELSE IF FirstEntryLinks # <<>> /\ FirstEntryLinks[1].title # <<>>
        THEN FirstEntryLinks[1].title
      ELSE DefaultTitle

C14_Witness ==
  /\ pc = "titled"
  /\ cli_title = NoTitle
  /\ TitleLine = 0
  /\ Head(toc).href = NoHref
  /\ FirstEntryLinks # <<>>
  /\ doc_title = FirstEntryLinks[1].title

\* the titles the first entry of the outline can be said to have: the text of its
\* own link; for an entry without link its label, or none at all
EntryTitles(li) ==
  IF li.href # NoHref THEN {li.title} \ {<<>>}
  ELSE IF li.text # NoText /\ HasNonWhitespace(li.text) THEN {Strip(li.text), DefaultTitle}
  ELSE {DefaultTitle}

\* C14 as stated: a given title, else the first heading, else the title of the
\* first entry of the outline, else "Documentation"
C14_FirstEntryTitle ==
  pc = "titled" =>
    IF cli_title # NoTitle /\ cli_title # <<>> THEN doc_title = cli_title
    ELSE IF TitleLine # 0 THEN doc_title = HeadingTitle
    ELSE IF toc # <<>> /\ EntryTitles(Head(toc)) # {} THEN doc_title \in EntryTitles(Head(toc))
    ELSE doc_title = DefaultTitle

(***************************************************************************)
(* Further properties of the indexer.                                      *)
(***************************************************************************)
OnSite(href) == StartsWith(href, SitePrefix)

OffSite(href) == IsHttpUrl(href) /\ ~OnSite(href)

\* an outline target without the site prefix
SitePath(href) ==
  IF OnSite(href) THEN SubSeq(href, Len(SitePrefix) + 1, Len(href)) ELSE href

\* C15: pass 1 leaves out exactly the links to an absolute URL off the site: the
\* keys of the index are the keys of all other links of the outline, children of
\* skipped links included, an absolute URL on the site indexed by its path
C15_OnlyOffSiteSkipped ==
  AfterPass1 =>
    \E ls \in {OwnLinks(toc)} :
      DOMAIN file_to_topic =
        {IndexKey(SitePath(ls[i].href)) : i \in {n \in 1..Len(ls) : ~OffSite(ls[n].href)}}

\* the first of the outline's links that has the key k
FirstWithKey(k) ==
  With(SelectSeq(OwnLinks(toc), LAMBDA li : ~IsHttpUrl(li.href) /\ IndexKey(li.href) = k),
       LAMBDA ls : Head(ls))

\* C16: a link whose key is already in the index changes nothing: after pass 1
\* every record still has the title of the first link with its key, the counter
\* is the number of keys, and each key is scheduled once, with the id and the
\* title of its record
C16_RepeatedKeyChangesNothing ==
  AfterPass1 =>
    /\ topic_counter = Cardinality(DOMAIN file_to_topic)
    /\ Len(files_to_process) = Cardinality(DOMAIN file_to_topic)
    /\ \A k \in DOMAIN file_to_topic :
         /\ file_to_topic[k].title = FirstWithKey(k).title
         /\ \E i \in 1..Len(files_to_process) :
              /\ files_to_process[i].topic_id = file_to_topic[k].id
              /\ files_to_process[i].topic_filename = file_to_topic[k].filename
              /\ files_to_process[i].title = FirstWithKey(k).title
              /\ normalize_path(files_to_process[i].href) = k

C16_Witness ==
  /\ AfterPass1
  /\ Len(toc) = 2
  /\ toc[1].href = H_intro /\ toc[2].href = H_intro
  /\ toc[1].title # toc[2].title
  /\ Cardinality(DOMAIN file_to_topic) = 1
  /\ file_to_topic[P_intro].title = toc[1].title
  /\ Len(files_to_process) = 1

(***************************************************************************)
(* Further properties of the translator.                                   *)
(***************************************************************************)
\* C17: in a translated topic a link whose key is not in the index is an external
\* reference when it is an absolute URL and plain text otherwise (unless the
\* construct that holds it is left out of the topic as a whole), and every
\* internal cross-reference names a filename of the index
C17_UnmatchedLinksFallBack ==
  \A i \in Translated :
    \E e \in {SourceOf(i)} :
      e.status = "file" =>
        \A j \in 1..Len(e.doc) :
          \E k \in {LinkKey(e.doc[j].href)}, o \in {TopicOf(i).body[j]} :
            /\ o.kind = "xref_dita" => o.href \in IndexFilenames
            /\ (e.doc[j].kind = "a" /\ k \notin DOMAIN file_to_topic /\ o.kind # "dropped") =>
                 IF IsHttpUrl(e.doc[j].href)
                   THEN o = Out("xref_external", escape_xml(e.doc[j].href))
                   ELSE o.kind = "text"

\* C18: in a translated topic an image is absent exactly when its src is a data
\* URI or an absolute URL; every other image is there, at its place, inline or
\* break, with the path of its file from dita/
C18_OnlyUnembeddableImagesAbsent ==
  \A i \in Translated :
    \E e \in {SourceOf(i)} :
      e.status = "file" =>
        \A j \in 1..Len(e.doc) :
          e.doc[j].kind = "img" =>
            \E o \in {TopicOf(i).body[j]} :
              IF StartsWith(e.doc[j].href, DataScheme) \/ IsHttpUrl(e.doc[j].href)
                THEN o.kind \notin {"image_inline", "image_break"}
                ELSE /\ o.kind \in {"image_inline", "image_break"}
                     /\ o.href = resolve_image_path(e.doc[j].href, files_to_process[i].href)

(***************************************************************************)
(* Further properties of the map.                                          *)
(***************************************************************************)
\* the entries of an outline, at every depth
RECURSIVE Entries(_)
Entries(ol) ==
  With(ol, LAMBDA v :
    IF v = <<>> THEN {}
    ELSE {Head(v)} \cup Entries(Head(v).kids) \cup Entries(Tail(v)))

\* an entry without link and without usable label
Unlabelled(li) ==
  li.href = NoHref /\ (li.text = NoText \/ ~HasNonWhitespace(li.text))

\* C19: for an entry without link and without usable label the map has no
\* heading, and every link below the entry that has a record is in the map
C19_UnlabelledEntryTransparent ==
  pc \in {"write", "done"} =>
    /\ \A n \in 1..Len(ditamap) :
         ditamap[n].tag = "topichead_open" => HasNonWhitespace(ditamap[n].arg)
    /\ \A li \in Entries(toc) :
         Unlabelled(li) =>
           \E ls \in {OwnLinks(li.kids)}, refs \in {MapRefs(ditamap)} :
             \A i \in 1..Len(ls) :
               RecordOf(ls[i].href) # NoRecord =>
                 \E n \in 1..Len(refs) : refs[n] = RecordOf(ls[i].href).filename

\* an entry that is a link to an absolute URL
ExternalEntry(li) == li.href # NoHref /\ IsHttpUrl(li.href)

\* the map of a list in which the children of the external links of the list
\* stand in the place of their parent
RECURSIVE MapWithHoisting(_, _)
MapWithHoisting(ol, indent) ==
  With(ol, LAMBDA v :
    IF v = <<>> THEN <<>>
    ELSE (IF ExternalEntry(Head(v))
            THEN build_map_structure(Head(v).kids, indent, file_to_topic, MD_DIR)
            ELSE build_map_structure(<<Head(v)>>, indent, file_to_topic, MD_DIR))
         \o MapWithHoisting(Tail(v), indent))

\* C20: a link to an absolute URL is not in the map and its children stand in
\* its place, at its level and in their order: this is so in the map written
\* for the top level of the outline, and for the part of the map of every
\* nested list
C20_ExternalLinkHoisted ==
  pc \in {"write", "done"} =>
    /\ ditamap = MapWithHoisting(toc, 1)
    /\ \A li \in Entries(toc), indent \in 2..(MaxNodes + 1) :
         build_map_structure(li.kids, indent, file_to_topic, MD_DIR)
           = MapWithHoisting(li.kids, indent)

\* C21: the two traversals agree: every link of the outline that pass 1 gave a
\* record is referenced in the map by the filename of its record, so the
\* filenames the map refers to are exactly the filenames of the index
C21_IndexerAndMapAgree ==
  pc \in {"write", "done"} =>
    \E refs \in {MapRefs(ditamap)}, ls \in {OwnLinks(toc)} :
      /\ \A i \in 1..Len(ls) :
           RecordOf(ls[i].href) # NoRecord =>
             \E n \in 1..Len(refs) : refs[n] = RecordOf(ls[i].href).filename
      /\ {refs[n] : n \in 1..Len(refs)} = IndexFilenames

(***************************************************************************)
(* Further properties of convert_headings_to_lists.                        *)
(***************************************************************************)
StrippedLine(i) == Strip(md_lines[i])

IsHeadingLine(i) == StartsWith(StrippedLine(i), <<"#">>)

NumberedItem(i) ==
  /\ StrippedLine(i) # <<>>
  /\ IsDigit(StrippedLine(i)[1])
  /\ Contains(SubSeq(StrippedLine(i), 1, 5), <<".", " ">>)

BulletItem(i) == ~NumberedItem(i) /\ StartsWith(StrippedLine(i), <<"-", " ">>)

IsItemLine(i) == ~IsHeadingLine(i) /\ (NumberedItem(i) \/ BulletItem(i))

\* the lines of the input that have a line in the output
EmittingLines(upto) ==
  {i \in 1..upto : (IsHeadingLine(i) /\ LevelAt(i) >= 2) \/ IsItemLine(i)}

\* the heading an item line stands under, 0 when there is none
HeadingOf(i) ==
  With({h \in 1..(i - 1) : IsHeadingLine(h) /\ LevelAt(h) >= 2}, LAMBDA hs :
    IF hs = {} THEN 0 ELSE CHOOSE h \in hs : \A k \in hs : k <= h)

ItemContent(i) ==
  With(StrippedLine(i), LAMBDA l :
    IF NumberedItem(i) THEN SubSeq(l, Find(l, <<".", " ">>) + 2, Len(l))
    ELSE Strip(SubSeq(l, 3, Len(l))))

\* C22: an item line under a heading is in the output one level deeper than the
\* entry of its heading, whatever the levels of the headings before it, and the
\* items of a heading are numbered 1, 2, 3 in order
C22_ItemsOneLevelBelowHeading ==
  pc = "headings_done" =>
    \A i \in 1..Len(md_lines) :
      (IsItemLine(i) /\ HeadingOf(i) # 0) =>
        \E h \in {HeadingOf(i)} :
          output[Cardinality(EmittingLines(i))] =
            Indent(LevelAt(h) - 2 + 1)
            \o Digits(Cardinality({j \in (h + 1)..i : IsItemLine(j)}))
            \o <<".", " ">> \o ItemContent(i)

(***************************************************************************)
(* Order of the passes of build_dita_map and of main's final write.        *)
(***************************************************************************)
AllTopicsWritten == Translated = 1..Len(files_to_process)

\* C23: the stages of a run follow one another: a topic is written only by pass 2,
\* after pass 1 has finished, and against the index pass 1 left, which no later
\* step changes; the map is built only when every topic is written; the map file
\* is written after that, and nothing is written after it
C23_StagesInOrder ==
  /\ [](/\ pc = "build" => (written = NoFiles /\ ditamap = <<>> /\ ~map_written)
        /\ pc \in {"translate", "crashed"} => (ditamap = <<>> /\ ~map_written)
        /\ AfterPass1 => (/\ file_to_topic = pass1_index
                          /\ Len(files_to_process) = Cardinality(DOMAIN file_to_topic))
        /\ pc \in {"write", "done"} => AllTopicsWritten
        /\ map_written => pc = "done")
  /\ [][/\ (written' # written /\ written' # NoFiles) =>
             (/\ pc = "translate"
              /\ file_to_topic = pass1_index
              /\ UNCHANGED <<file_to_topic, files_to_process, ditamap, map_written>>)
        /\ ditamap' \notin {ditamap, <<>>} =>
             (AllTopicsWritten /\ UNCHANGED <<written, file_to_topic, map_written>>)
        /\ (map_written' /\ ~map_written) =>
             (/\ pc = "write"
              /\ AllTopicsWritten
              /\ UNCHANGED <<written, file_to_topic, ditamap>>)]_vars

C23_Witness ==
  /\ pc = "done"
  /\ map_written
  /\ Len(files_to_process) = 2
  /\ AllTopicsWritten
  /\ Len(ditamap) >= 2

(***************************************************************************)
(* Properties of parse_markdown_toc.                                       *)
(***************************************************************************)
\* an indented list line of any kind: indented by two spaces or a tab, and a
\* numbered item, a bullet or a link
IndentedListLine(line) ==
  /\ IsListLine(line)
  /\ \/ IsDigit(Strip(line)[1])
     \/ StartsWith(Strip(line), <<"-", " ">>)
     \/ StartsWith(Strip(line), <<"[">>)

HeadingBased(lines) ==
  /\ \E i \in 1..Len(lines) : StartsWith(Strip(lines[i]), <<"#">>)
  /\ \A i \in 1..Len(lines) : ~IndentedListLine(lines[i])

Parsed == pc \in {"clean", "title", "titled"}

\* C24: the outline is rewritten from its headings exactly when it has a heading
\* line and no indented list line of any kind; otherwise its lines reach the
\* markdown library as they are, in order, without the suppressed blank lines
C24_HeadingBasedIffNoIndentedList ==
  Parsed =>
    cleaned_lines = SkipBlankLines(IF HeadingBased(md_lines)
                                     THEN convert_headings_to_lists(md_lines)
                                     ELSE md_lines)
=============================================================================
